---- MODULE Spec2Model ----
(***************************************************************************)
(* The PikafishWASM adapter of src/wasm_api.cpp: one adapter instance, the *)
(* host thread that calls its entry points, and the engine worker thread   *)
(* that runs the two trampolines the constructor registers.                *)
(*                                                                         *)
(* The adapter's fields and every entry point are translated from          *)
(* src/wasm_api.cpp, one action per atomic step of a thread.  The engine   *)
(* behind the handle (engine.h, search.h) is modelled from the engine      *)
(* contract of the specification: go is asynchronous, the engine runs one  *)
(* search at a time, each accepted search emits updates and then exactly   *)
(* one terminal result, stop is cooperative, wait_for_search_finished      *)
(* blocks until the worker is idle.                                        *)
(***************************************************************************)
EXTENDS Integers, Sequences, FiniteSets, TLC

\* ------------------------------------------------------------- bounds
MaxSearches == 2      \* go* calls per behaviour
MaxUpdates == 1       \* update events the engine emits per search

\* ------------------------------------------------------------- domains
Null == "null"                        \* val::null()
Receivers == {"A", "B"}               \* host-side callback receivers
Slots == Receivers \cup {Null}
\* terminal results the engine may deliver; the ponder move may be empty
Results == {[best |-> "h2e2", ponder |-> "h9g7"], [best |-> "b0c2", ponder |-> ""]}
\* arguments the host passes
Depths == {5}
TimesMs == {200}
NodeBudgets == {1000}
ThreadCounts == {2, 12}

\* Search::LimitsType after default construction
DefaultLimits ==
    [depth |-> 0, timeW |-> 0, timeB |-> 0, nodes |-> 0, infinite |-> FALSE]

\* the engine's search record before the first go: the search's number, its
\* limits, stop request and updates so far, the terminal result delivered
\* last and the one delivered before it
NoSearch ==
    [id |-> 0, lim |-> DefaultLimits, stop |-> FALSE, nupd |-> 0,
     best |-> "", ponder |-> "", prevBest |-> "", prevPonder |-> ""]

\* std::to_string(int) for the arguments the model draws
Digits == <<"0", "1", "2", "3", "4", "5", "6", "7", "8", "9">>

RECURSIVE to_string(_)
to_string(n) ==
    IF n < 0 THEN "-" \o to_string(0 - n)
    ELSE IF n < 10 THEN Digits[n + 1]
    ELSE to_string(n \div 10) \o Digits[(n % 10) + 1]

\* Engine::InfoFull of the k-th progress record of search s
InfoFull(s, k) ==
    [depth |-> k, selDepth |-> k + 1, timeMs |-> 10 * k, nodes |-> 1000 * k + s,
     score |-> 25 - 50 * (s % 2), hashfull |-> k, nps |-> 100000, tbHits |-> 3]

\* updateInfo with the nps field filled from the node count
updateInfo_nps_from_nodes(info) ==
    [depth |-> info.depth, seldepth |-> info.selDepth, time |-> info.timeMs,
     nodes |-> info.nodes, score |-> info.score, hashfull |-> info.hashfull,
     nps |-> info.nodes, tbhits |-> info.tbHits]

\* the object the update trampoline builds from a progress record; the three
\* counters pass through static_cast<double>, which is exact for every
\* magnitude below 2^53 and so for every value InfoFull takes here
updateInfo(info) ==
    [depth |-> info.depth, seldepth |-> info.selDepth, time |-> info.timeMs,
     nodes |-> info.nodes, score |-> info.score, hashfull |-> info.hashfull,
     nps |-> info.nps, tbhits |-> info.tbHits]

\* no object handed to a receiver yet
NoRecord ==
    [depth |-> 0, seldepth |-> 0, time |-> 0, nodes |-> 0, score |-> 0,
     hashfull |-> 0, nps |-> 0, tbhits |-> 0]

\* the option store's schema: the names the engine advertises, with defaults
KnownOptions == {"Threads", "Hash"}
OptionNames == KnownOptions \cup {"Bogus"}
OptionValues == {"2", "x"}
DefaultOptions == [n \in KnownOptions |-> IF n = "Threads" THEN "1" ELSE "16"]

VARIABLES
    \* PikafishWASM fields
    searching, lastBestMove, lastPonder, onUpdateCallback, onBestMoveCallback,
    \* the host thread: where it is ("idle" between calls, "did_..." between
    \* calls with a note of the call it has just returned from, any other
    \* value inside an entry point), and the limits it is forwarding
    hpc, limits,
    \* the engine behind the handle: the worker's position, the search it
    \* runs, the accepted searches that wait, the option store, the pool
    wpc, cur, queue, options, pool,
    \* observation only: the go* calls forwarded to the engine; the host
    \* calls made for the current search (how many, to which receivers, with
    \* which object last), the slot values its terminal trampoline read, and
    \* the receivers of the updates of the search before the last swap;
    \* whether a host callback ran after the release
    nGo, obs, lateCall

adapter == <<searching, lastBestMove, lastPonder, onUpdateCallback, onBestMoveCallback>>
host == <<hpc, limits>>
engine == <<wpc, cur, queue, options, pool>>
ghost == <<nGo, obs, lateCall>>
vars == <<adapter, host, engine, ghost>>

FreshObs ==
    [id |-> 0, upd |-> 0, best |-> 0, s47 |-> "unread", s48 |-> "unread",
     to |-> {}, rec |-> NoRecord, before |-> {}]

\* the observation of the running search: a fresh one at its first event
ObsOf(id) ==
    IF obs.id = id THEN obs ELSE [FreshObs EXCEPT !.id = id, !.before = obs.before]

\* the host thread is between two calls on a live adapter
ready ==
    hpc \in {"idle", "did_wait", "did_stop", "did_stop_skip", "did_set_skip",
             "did_init", "did_call"}

\* PikafishWASM::PikafishWASM
Init ==
    /\ searching = FALSE
    /\ lastBestMove = ""
    /\ lastPonder = ""
    /\ onUpdateCallback = Null
    /\ onBestMoveCallback = Null
    /\ hpc = "idle"
    /\ limits = DefaultLimits
    /\ wpc = "idle"
    /\ cur = NoSearch
    /\ queue = <<>>
    /\ options = DefaultOptions
    /\ pool = DefaultOptions["Threads"]
    /\ nGo = 0
    /\ obs = FreshObs
    /\ lateCall = FALSE

\* the adapter under construction: the member initialisers have run, the
\* constructor's body has not
CtorInit ==
    /\ searching = FALSE
    /\ lastBestMove = ""
    /\ lastPonder = ""
    /\ onUpdateCallback = Null
    /\ onBestMoveCallback = Null
    /\ hpc = "ctor39"
    /\ limits = DefaultLimits
    /\ wpc = "idle"
    /\ cur = NoSearch
    /\ queue = <<>>
    /\ options = DefaultOptions
    /\ pool = DefaultOptions["Threads"]
    /\ nGo = 0
    /\ obs = FreshObs
    /\ lateCall = FALSE

\* how a call into the engine that may fail ends: it returns, or it throws an
\* exception derived from std::exception
EngineOutcomes == {"ok", "std::exception"}

\* the constructor's body: the engine is made and the trampolines are
\* registered; nothing in the body catches, so a failure of the engine's
\* constructor leaves the adapter's constructor as an exception
Constructor ==
    /\ hpc = "ctor39"
    /\ \E e \in EngineOutcomes : hpc' = IF e = "ok" THEN "idle" ELSE "ctor_threw"
    /\ UNCHANGED <<adapter, limits, engine, ghost>>

\* PikafishWASM::init: entry into the try block
init ==
    /\ ready
    /\ hpc' = "init79"
    /\ UNCHANGED <<adapter, limits, engine, ghost>>

\* engine->load_networks(); a std::exception is caught by the handler of
\* line 81, whose body is empty, and init returns
init_load ==
    /\ hpc = "init79"
    /\ \E e \in EngineOutcomes : hpc' = IF e = "ok" THEN "init80" ELSE "did_init"
    /\ UNCHANGED <<adapter, limits, engine, ghost>>

\* engine->verify_networks(), under the same handler
init_verify ==
    /\ hpc = "init80"
    /\ \E e \in EngineOutcomes : hpc' = "did_init"
    /\ UNCHANGED <<adapter, limits, engine, ghost>>

\* ------------------------------------------------------------- the engine
\* Engine::go: asynchronous; an idle engine starts the search at once, a
\* busy one runs it after the searches it has already accepted
engine_go(lim) ==
    IF wpc = "idle"
    THEN /\ cur' = [cur EXCEPT !.id = nGo + 1, !.lim = lim]
         /\ wpc' = "search"
         /\ UNCHANGED queue
    ELSE /\ queue' = Append(queue, [id |-> nGo + 1, lim |-> lim, stop |-> FALSE])
         /\ UNCHANGED <<cur, wpc>>

\* the engine runs a search that has not delivered its terminal result
Undelivered == wpc \in {"search", "upd53", "upd64"}

\* Engine::stop: cooperative, reaches every search accepted and not ended
engine_stop ==
    IF Undelivered
    THEN /\ cur' = [cur EXCEPT !.stop = TRUE]
         /\ queue' = [i \in DOMAIN queue |-> [queue[i] EXCEPT !.stop = TRUE]]
    ELSE /\ queue' = [i \in DOMAIN queue |-> [queue[i] EXCEPT !.stop = TRUE]]
         /\ UNCHANGED cur

\* Engine::resize_threads: the pool is rebuilt from the "Threads" option
engine_resize_threads == pool' = options["Threads"]

\* Engine::wait_for_search_finished returns when no search is active
search_finished == wpc = "idle"

\* the worker leaves the terminal trampoline: next accepted search, or idle
worker_next ==
    IF queue = <<>>
    THEN /\ wpc' = "idle"
         /\ UNCHANGED <<cur, queue>>
    ELSE /\ wpc' = "search"
         /\ cur' = [cur EXCEPT !.id = Head(queue).id, !.lim = Head(queue).lim,
                               !.stop = Head(queue).stop]
         /\ queue' = Tail(queue)

\* a read of a callback slot by the worker; once the adapter's members have
\* been destroyed the read is of a dead object, and yields the value the
\* slot last held or an empty handle
ReadSlot(slot) == IF hpc = "dead" THEN {slot, Null} ELSE {slot}

\* ------------------------------------------------------------- go*
\* go_begin refusing the call while the flag is set
go_begin_gated(lim) ==
    /\ ready
    /\ ~searching
    /\ nGo < MaxSearches
    /\ limits' = lim
    /\ searching' = TRUE
    /\ hpc' = "go"
    /\ UNCHANGED <<lastBestMove, lastPonder, onUpdateCallback, onBestMoveCallback>>
    /\ UNCHANGED <<engine, ghost>>

\* the part of each go* before engine->go: fresh limits, one field, the flag
go_begin(lim) ==
    /\ ready
    /\ nGo < MaxSearches
    /\ limits' = lim
    /\ searching' = TRUE
    /\ hpc' = "go"
    /\ UNCHANGED <<lastBestMove, lastPonder, onUpdateCallback, onBestMoveCallback>>
    /\ UNCHANGED <<engine, ghost>>

\* PikafishWASM::goDepth up to engine->go
goDepth == \E depth \in Depths : go_begin([DefaultLimits EXCEPT !.depth = depth])

\* goTime setting the budget of one side only
goTime_one_side ==
    \E timeMs \in TimesMs : go_begin([DefaultLimits EXCEPT !.timeW = timeMs])

\* PikafishWASM::goTime up to engine->go
goTime ==
    \E timeMs \in TimesMs :
        go_begin([DefaultLimits EXCEPT !.timeW = timeMs, !.timeB = timeMs])

\* PikafishWASM::goNodes up to engine->go
goNodes == \E nodes \in NodeBudgets : go_begin([DefaultLimits EXCEPT !.nodes = nodes])

\* PikafishWASM::goInfinite up to engine->go
goInfinite == go_begin([DefaultLimits EXCEPT !.infinite = TRUE])

\* engine->go(limits), the last statement of each go*
go_engine ==
    /\ hpc = "go"
    /\ engine_go(limits)
    /\ nGo' = nGo + 1
    /\ limits' = DefaultLimits
    /\ hpc' = "idle"
    /\ UNCHANGED <<adapter, options, pool, obs, lateCall>>

\* ------------------------------------------------------------- stop, wait
\* stop with the test of the flag inverted
stop_inverted ==
    /\ ready
    /\ hpc' = IF ~searching THEN "stop133" ELSE "did_stop"
    /\ UNCHANGED <<adapter, limits, engine, ghost>>

\* stop without the test of the flag
stop_unconditional ==
    /\ ready
    /\ hpc' = "stop133"
    /\ UNCHANGED <<adapter, limits, engine, ghost>>

\* PikafishWASM::stop: the test of the flag
stop ==
    /\ ready
    /\ hpc' = IF searching THEN "stop133" ELSE "did_stop_skip"
    /\ UNCHANGED <<adapter, limits, engine, ghost>>

\* stop_engine clearing the flag itself
stop_engine_clearing ==
    /\ hpc = "stop133"
    /\ engine_stop
    /\ hpc' = "did_stop"
    /\ searching' = FALSE
    /\ UNCHANGED <<lastBestMove, lastPonder, onUpdateCallback, onBestMoveCallback>>
    /\ UNCHANGED <<limits, wpc, options, pool, ghost>>

\* PikafishWASM::stop: engine->stop()
stop_engine ==
    /\ hpc = "stop133"
    /\ engine_stop
    /\ hpc' = "did_stop"
    /\ UNCHANGED <<adapter, limits, wpc, options, pool, ghost>>

\* PikafishWASM::waitForSearchFinished: the call into the engine
waitForSearchFinished ==
    /\ ready
    /\ hpc' = "wait"
    /\ UNCHANGED <<adapter, limits, engine, ghost>>

\* waitForSearchFinished returning without the engine's leave
waitForSearchFinished_return_early ==
    /\ hpc = "wait"
    /\ hpc' = "did_wait"
    /\ UNCHANGED <<adapter, limits, engine, ghost>>

\* waitForSearchFinished handing the cached moves to the onBestMove receiver
\* once more when the wait is over
waitForSearchFinished_return_notifying ==
    /\ hpc = "wait"
    /\ search_finished
    /\ hpc' = "did_wait"
    /\ obs' = IF onBestMoveCallback = Null THEN obs ELSE [obs EXCEPT !.best = @ + 1]
    /\ UNCHANGED <<adapter, limits, engine, nGo, lateCall>>

\* ... and its return, once the engine lets the caller go
waitForSearchFinished_return ==
    /\ hpc = "wait"
    /\ search_finished
    /\ hpc' = "did_wait"
    /\ UNCHANGED <<adapter, limits, engine, ghost>>

\* ------------------------------------------------------------- destruction
\* PikafishWASM::~PikafishWASM: the test of the flag
Destructor ==
    /\ ready
    /\ hpc' = IF searching THEN "dtor71" ELSE "dtor74"
    /\ UNCHANGED <<adapter, limits, engine, ghost>>

\* engine->stop() in the destructor
Destructor_stop ==
    /\ hpc = "dtor71"
    /\ engine_stop
    /\ hpc' = "dtor72"
    /\ UNCHANGED <<adapter, limits, wpc, options, pool, ghost>>

\* engine->wait_for_search_finished() in the destructor
Destructor_wait ==
    /\ hpc = "dtor72"
    /\ search_finished
    /\ hpc' = "dtor74"
    /\ UNCHANGED <<adapter, limits, engine, ghost>>

\* the end of the destructor: the members are destroyed, the callback slots
\* first and the engine handle last
Destructor_release ==
    /\ hpc = "dtor74"
    /\ hpc' = "dead"
    /\ UNCHANGED <<adapter, limits, engine, ghost>>

\* ------------------------------------------------------------- options
\* setOptionBody without the presence check: operator[] makes the entry
setOptionBody_unchecked(name, value) ==
    options' = [n \in DOMAIN options \cup {name} |->
                   IF n = name THEN value ELSE options[n]]

\* the body of PikafishWASM::setOption on the option store
setOptionBody(name, value) ==
    IF name \in DOMAIN options
    THEN options' = [options EXCEPT ![name] = value]
    ELSE UNCHANGED options

\* PikafishWASM::setOption
setOption ==
    /\ ready
    /\ \E name \in OptionNames, value \in OptionValues :
          /\ setOptionBody(name, value)
          /\ hpc' = IF name \in DOMAIN options THEN "idle" ELSE "did_set_skip"
    /\ UNCHANGED <<adapter, limits, wpc, cur, queue, pool, ghost>>

\* PikafishWASM::setThreads, first statement
setThreads ==
    /\ ready
    /\ \E numThreads \in ThreadCounts : setOptionBody("Threads", to_string(numThreads))
    /\ hpc' = "resize"
    /\ UNCHANGED <<adapter, limits, wpc, cur, queue, pool, ghost>>

\* PikafishWASM::setThreads, second statement
setThreads_resize ==
    /\ hpc = "resize"
    /\ engine_resize_threads
    /\ hpc' = "idle"
    /\ UNCHANGED <<adapter, limits, wpc, cur, queue, options, ghost>>

\* ------------------------------------------------------------- pass-through
\* an entry point that reads a field of the adapter, or calls the engine on
\* state of the engine that is not part of this model (the position, the
\* transposition table), and returns
pass_through ==
    /\ ready
    /\ hpc' = "did_call"
    /\ UNCHANGED <<adapter, limits, engine, ghost>>

\* PikafishWASM::setPosition: engine->set_position(fen, {})
setPosition == pass_through

\* PikafishWASM::setPositionWithMoves: engine->set_position(fen, moves)
setPositionWithMoves == pass_through

\* PikafishWASM::getBestMove: returns lastBestMove
getBestMove == pass_through

\* PikafishWASM::getPonderMove: returns lastPonder
getPonderMove == pass_through

\* PikafishWASM::isSearching: returns searching
isSearching == pass_through

\* PikafishWASM::getFen: engine->fen()
getFen == pass_through

\* PikafishWASM::visualize: engine->visualize()
visualize == pass_through

\* PikafishWASM::getHashFull: engine->get_hashfull()
getHashFull == pass_through

\* PikafishWASM::clearHash: engine->search_clear()
clearHash == pass_through

\* PikafishWASM::setHashSize: engine->set_tt_size(mb)
setHashSize == pass_through

\* PikafishWASM::perft: engine->perft(fen, depth)
perft == pass_through

\* ------------------------------------------------------------- callback slots
\* PikafishWASM::setOnUpdate
setOnUpdate ==
    /\ ready
    /\ \E callback \in Slots : onUpdateCallback' = callback
    /\ hpc' = "idle"
    /\ UNCHANGED <<searching, lastBestMove, lastPonder, onBestMoveCallback>>
    /\ UNCHANGED <<limits, engine, ghost>>

\* PikafishWASM::setOnUpdate called by a host that replaces the receiver
\* only between searches: the engine is idle and no go* has been forwarded
\* since; the receivers of the search before the swap are noted
setOnUpdate_between ==
    /\ ready
    /\ wpc = "idle" /\ queue = <<>>
    /\ \E callback \in Slots : onUpdateCallback' = callback
    /\ hpc' = "idle"
    /\ obs' = [obs EXCEPT !.before = obs.to]
    /\ UNCHANGED <<searching, lastBestMove, lastPonder, onBestMoveCallback>>
    /\ UNCHANGED <<limits, engine, nGo, lateCall>>

\* PikafishWASM::setOnBestMove
setOnBestMove ==
    /\ ready
    /\ \E callback \in Slots : onBestMoveCallback' = callback
    /\ hpc' = "idle"
    /\ UNCHANGED <<searching, lastBestMove, lastPonder, onUpdateCallback>>
    /\ UNCHANGED <<limits, engine, ghost>>

\* ------------------------------------------------------------- the worker
\* the engine emits a progress record of the running search
emit_update ==
    /\ wpc = "search"
    /\ cur.nupd < MaxUpdates
    /\ cur' = [cur EXCEPT !.nupd = @ + 1]
    /\ wpc' = "upd53"
    /\ obs' = ObsOf(cur.id)
    /\ UNCHANGED <<adapter, host, queue, options, pool, nGo, lateCall>>

\* set_on_update_full lambda: the emptiness test of the slot
on_update_test ==
    /\ wpc = "upd53"
    /\ \E r \in ReadSlot(onUpdateCallback) :
          wpc' = IF r = Null THEN "search" ELSE "upd64"
    /\ UNCHANGED <<adapter, host, cur, queue, options, pool, ghost>>

\* on_update_call calling through the other slot
on_update_call_other_slot ==
    /\ wpc = "upd64"
    /\ \E r \in ReadSlot(onBestMoveCallback) :
          /\ obs' = IF r = Null
                    THEN obs
                    ELSE [obs EXCEPT !.upd = @ + 1, !.to = @ \cup {r},
                                     !.rec = updateInfo(InfoFull(cur.id, cur.nupd))]
          /\ lateCall' = (lateCall \/ (r # Null /\ hpc = "dead"))
    /\ wpc' = "search"
    /\ UNCHANGED <<adapter, host, cur, queue, options, pool, nGo>>

\* set_on_update_full lambda: the record is built and handed to the slot
on_update_call ==
    /\ wpc = "upd64"
    /\ \E r \in ReadSlot(onUpdateCallback) :
          /\ obs' = IF r = Null
                    THEN obs
                    ELSE [obs EXCEPT !.upd = @ + 1, !.to = @ \cup {r},
                                     !.rec = updateInfo(InfoFull(cur.id, cur.nupd))]
          /\ lateCall' = (lateCall \/ (r # Null /\ hpc = "dead"))
    /\ wpc' = "search"
    /\ UNCHANGED <<adapter, host, cur, queue, options, pool, nGo>>

\* the engine ends the running search and delivers its terminal result; an
\* infinite search ends only after a stop request
deliver ==
    /\ wpc = "search"
    /\ (cur.lim.infinite => cur.stop)
    /\ \E r \in Results :
          cur' = [NoSearch EXCEPT !.id = cur.id, !.best = r.best, !.ponder = r.ponder,
                                  !.prevBest = cur.best, !.prevPonder = cur.ponder]
    /\ wpc' = "bm43"
    /\ obs' = ObsOf(cur.id)
    /\ UNCHANGED <<adapter, host, queue, options, pool, nGo, lateCall>>

\* set_on_bestmove lambda, first statement
on_bestmove_best ==
    /\ wpc = "bm43"
    /\ lastBestMove' = cur.best
    /\ wpc' = "bm44"
    /\ UNCHANGED <<searching, lastPonder, onUpdateCallback, onBestMoveCallback>>
    /\ UNCHANGED <<host, cur, queue, options, pool, ghost>>

\* on_bestmove_ponder caching the best move as the ponder move
on_bestmove_ponder_mixed ==
    /\ wpc = "bm44"
    /\ lastPonder' = cur.best
    /\ wpc' = "bm45"
    /\ UNCHANGED <<searching, lastBestMove, onUpdateCallback, onBestMoveCallback>>
    /\ UNCHANGED <<host, cur, queue, options, pool, ghost>>

\* set_on_bestmove lambda, second statement
on_bestmove_ponder ==
    /\ wpc = "bm44"
    /\ lastPonder' = cur.ponder
    /\ wpc' = "bm45"
    /\ UNCHANGED <<searching, lastBestMove, onUpdateCallback, onBestMoveCallback>>
    /\ UNCHANGED <<host, cur, queue, options, pool, ghost>>

\* on_bestmove_clear with the flag left as it is
on_bestmove_clear_missing ==
    /\ wpc = "bm45"
    /\ wpc' = "bm47"
    /\ UNCHANGED <<adapter, host, cur, queue, options, pool, ghost>>

\* on_bestmove_clear with the assignment moved under the test of the slot
on_bestmove_clear_if_receiver ==
    /\ wpc = "bm45"
    /\ searching' = IF onBestMoveCallback = Null THEN searching ELSE FALSE
    /\ wpc' = "bm47"
    /\ UNCHANGED <<lastBestMove, lastPonder, onUpdateCallback, onBestMoveCallback>>
    /\ UNCHANGED <<host, cur, queue, options, pool, ghost>>

\* set_on_bestmove lambda, third statement
on_bestmove_clear ==
    /\ wpc = "bm45"
    /\ searching' = FALSE
    /\ wpc' = "bm47"
    /\ UNCHANGED <<lastBestMove, lastPonder, onUpdateCallback, onBestMoveCallback>>
    /\ UNCHANGED <<host, cur, queue, options, pool, ghost>>

\* on_bestmove_test with the test inverted
on_bestmove_test_inverted ==
    /\ wpc = "bm47"
    /\ \E r \in ReadSlot(onBestMoveCallback) :
          /\ obs' = [obs EXCEPT !.s47 = r]
          /\ IF r # Null
             THEN worker_next
             ELSE /\ wpc' = "bm48"
                  /\ UNCHANGED <<cur, queue>>
    /\ UNCHANGED <<adapter, host, options, pool, nGo, lateCall>>

\* set_on_bestmove lambda: the emptiness test of the slot
on_bestmove_test ==
    /\ wpc = "bm47"
    /\ \E r \in ReadSlot(onBestMoveCallback) :
          /\ obs' = [obs EXCEPT !.s47 = r]
          /\ IF r = Null
             THEN worker_next
             ELSE /\ wpc' = "bm48"
                  /\ UNCHANGED <<cur, queue>>
    /\ UNCHANGED <<adapter, host, options, pool, nGo, lateCall>>

\* set_on_bestmove lambda: the host callback is called with the cached moves
on_bestmove_call ==
    /\ wpc = "bm48"
    /\ \E r \in ReadSlot(onBestMoveCallback) :
          /\ obs' = [obs EXCEPT !.s48 = r, !.best = IF r = Null THEN @ ELSE @ + 1]
          /\ lateCall' = (lateCall \/ (r # Null /\ hpc = "dead"))
    /\ worker_next
    /\ UNCHANGED <<adapter, host, options, pool, nGo>>

\* ------------------------------------------------------------- specification
Lifecycle ==
    \/ goDepth \/ goTime \/ goNodes \/ goInfinite \/ go_engine
    \/ stop \/ stop_engine
    \/ waitForSearchFinished \/ waitForSearchFinished_return
    \/ Destructor \/ Destructor_stop \/ Destructor_wait \/ Destructor_release
    \/ setOnUpdate \/ setOnBestMove

Options == setOption \/ setThreads \/ setThreads_resize

Worker ==
    \/ emit_update \/ on_update_test \/ on_update_call
    \/ deliver
    \/ on_bestmove_best \/ on_bestmove_ponder \/ on_bestmove_clear
    \/ on_bestmove_test \/ on_bestmove_call

Next == Lifecycle \/ Worker

Spec == Init /\ [][Next]_vars

\* the option entry points, on an adapter whose host installs no receiver
\* and starts depth-limited searches
OptionsNext ==
    \/ Options
    \/ goDepth \/ go_engine \/ stop \/ stop_engine
    \/ emit_update \/ on_update_test
    \/ deliver
    \/ on_bestmove_best \/ on_bestmove_ponder \/ on_bestmove_clear
    \/ on_bestmove_test

OptionsSpec == Init /\ [][OptionsNext]_vars

\* a host that starts bounded and unbounded searches, stops them and installs
\* a terminal receiver
StopNext ==
    \/ goDepth \/ goInfinite \/ go_engine \/ stop \/ stop_engine \/ setOnBestMove
    \/ emit_update \/ on_update_test
    \/ deliver
    \/ on_bestmove_best \/ on_bestmove_ponder \/ on_bestmove_clear
    \/ on_bestmove_test \/ on_bestmove_call

\* the engine's worker thread keeps running: a search that may end does end,
\* and a trampoline that was entered runs to its end
LiveSpec == Init /\ [][StopNext]_vars /\ WF_vars(Worker)

\* a host that replaces the onUpdate receiver only between searches
SwapNext ==
    \/ goDepth \/ go_engine
    \/ waitForSearchFinished \/ waitForSearchFinished_return
    \/ setOnUpdate_between \/ setOnBestMove
    \/ Worker

SwapSpec == Init /\ [][SwapNext]_vars

\* every entry point of a live adapter, and the worker
PassThrough ==
    \/ setPosition \/ setPositionWithMoves
    \/ getBestMove \/ getPonderMove \/ isSearching
    \/ getFen \/ visualize \/ getHashFull
    \/ clearHash \/ setHashSize \/ perft

\* the option store and the pool are as the engine made them
Plain == options = DefaultOptions /\ pool = DefaultOptions["Threads"]

\* no receiver is installed
Silent == onUpdateCallback = Null /\ onBestMoveCallback = Null

\* a host that starts a search only when the engine is idle and changes one
\* thing about the configuration: it installs receivers, or it makes one
\* option call
FrameNext ==
    \/ (wpc = "idle" /\ (goDepth \/ goTime \/ goNodes \/ goInfinite))
    \/ go_engine
    \/ stop \/ stop_engine
    \/ waitForSearchFinished \/ waitForSearchFinished_return
    \/ init \/ init_load \/ init_verify
    \/ (Silent /\ Plain /\ (setOption \/ setThreads))
    \/ setThreads_resize
    \/ (Plain /\ (setOnUpdate \/ setOnBestMove))
    \/ PassThrough
    \/ Worker

FrameSpec == Init /\ [][FrameNext]_vars

\* the adapter from its constructor on, with a host that calls init and
\* starts depth-limited searches without installing a receiver
InitNext ==
    \/ Constructor
    \/ init \/ init_load \/ init_verify
    \/ goDepth \/ go_engine
    \/ emit_update \/ on_update_test
    \/ deliver
    \/ on_bestmove_best \/ on_bestmove_ponder \/ on_bestmove_clear
    \/ on_bestmove_test

InitSpec == CtorInit /\ [][InitNext]_vars

\* ------------------------------------------------------------- properties
\* the terminal trampoline of the search obs describes has returned
TerminalReturned ==
    /\ obs.id >= 1
    /\ wpc = "idle" \/ (Undelivered /\ cur.id > obs.id)

\* the host calls of the search obs describes agree with what its terminal
\* trampoline read from the slot
HostCallsMatchSlot ==
    \/ obs.s47 = Null /\ obs.s48 = "unread" /\ obs.best = 0
    \/ obs.s47 \in Receivers /\ obs.s48 \in Receivers /\ obs.best = 1
    \/ obs.s47 \in Receivers /\ obs.s48 = Null /\ obs.best = 0

\* C1 as stated: the host's onBestMove callback is invoked exactly once for
\* every search (never twice, and once by the time the search has ended), and
\* not while an update of that search is still being dispatched.
C1_HostCalledOncePerSearch ==
    /\ obs.best <= 1
    /\ wpc \in {"upd53", "upd64"} =>
          obs.id = cur.id /\ obs.best = 0 /\ obs.s47 = "unread"
    /\ TerminalReturned => obs.best = 1

\* C1, amended: the host's onBestMove callback is invoked at most once per
\* search and never before an update of that search is dispatched; when the
\* terminal trampoline has returned it was invoked exactly once if the slot
\* held a receiver at the test and at the call, and not at all if the slot
\* was empty at the test (as it is after construction) or emptied before the
\* call.
C1_TerminalOnceAfterUpdates ==
    /\ obs.best <= 1
    /\ wpc \in {"upd53", "upd64"} =>
          obs.id = cur.id /\ obs.best = 0 /\ obs.s47 = "unread"
    /\ TerminalReturned => HostCallsMatchSlot

C1_Witness == TerminalReturned /\ obs.upd >= 1 /\ obs.best = 1 /\ hpc # "dead"

\* C2 as stated: at the moment the host onBestMove callback is called the
\* cached moves are the delivered ones and isSearching() is false.
C2_FinalStateAtCallback ==
    wpc = "bm48" =>
        lastBestMove = cur.best /\ lastPonder = cur.ponder /\ ~searching

\* C2, amended: from the emptiness test of the slot until the worker is next
\* started, the cached moves are the delivered ones, and isSearching() is
\* false unless the host thread has begun another go* call since the
\* trampoline cleared the flag.
C2_WritesBeforeCallback ==
    wpc \in {"bm47", "bm48", "idle"} /\ cur.id >= 1 =>
        /\ lastBestMove = cur.best
        /\ lastPonder = cur.ponder
        /\ searching => hpc = "go" \/ nGo > cur.id

C2_Witness ==
    /\ wpc = "bm48" /\ cur.id = 2 /\ cur.best # cur.prevBest
    /\ lastBestMove = cur.best /\ lastPonder = cur.ponder /\ ~searching

\* C3 as stated: while the adapter lives and an accepted search has not
\* delivered its terminal result, isSearching() is true.
C3_SearchingWhileUndelivered ==
    hpc # "dead" /\ (Undelivered \/ queue # <<>>) => searching

\* C4 as stated: at most one accepted search is without its terminal result
\* at any time.
C4_AtMostOneActiveSearch ==
    (IF Undelivered THEN 1 ELSE 0) + Len(queue) <= 1

\* C5 as stated: no host callback runs after the engine handle has been
\* released.
C5_NoCallbackAfterRelease == ~lateCall

\* search s has delivered its terminal result
Delivered(s) == cur.id > s \/ (cur.id = s /\ ~Undelivered)

\* the host has just returned from a stop() that found the flag set, and
\* search s, forwarded before it, has not delivered its terminal result
StopCovers(s) == hpc = "did_stop" /\ s <= nGo /\ ~Delivered(s)

\* the terminal trampoline of search s has cleared the flag
Cleared(s) == wpc = "bm47" /\ cur.id = s /\ ~searching

\* C6 as stated: after a stop() that found isSearching() true, the host's
\* onBestMove callback eventually fires once for each search it covers and
\* isSearching() becomes false.
C6_StopLeadsToHostCallback ==
    \A s \in 1..MaxSearches :
        /\ StopCovers(s) ~> (obs.id = s /\ obs.best = 1)
        /\ StopCovers(s) ~> Cleared(s)

\* C6, amended: after a stop() that found isSearching() true, each search it
\* covers eventually has its terminal trampoline run: the flag is cleared,
\* and the host's onBestMove callback is called once if the slot holds a
\* receiver and not at all if the slot is empty.
C6_StopLeadsToTerminal ==
    \A s \in 1..MaxSearches :
        /\ StopCovers(s) ~> Cleared(s)
        /\ StopCovers(s) ~> (obs.id = s /\ Delivered(s) /\ HostCallsMatchSlot)

C6_Witness ==
    /\ hpc = "did_stop" /\ wpc = "bm47" /\ cur.id = 1 /\ ~searching
    /\ onBestMoveCallback # Null

\* C7: a stop() call made while isSearching() is false returns after its
\* test of the flag and changes nothing but the host thread's position: no
\* adapter field, no engine state.
C7_StopNoOpWhenIdle ==
    [][stop /\ ~searching =>
          /\ hpc' = "did_stop_skip"
          /\ UNCHANGED <<adapter, limits, engine, ghost>>]_vars

C7_Witness == hpc = "did_stop_skip" /\ ~searching /\ wpc = "search" /\ ~cur.stop

\* C8 as stated: waitForSearchFinished() returns at once on an idle engine
\* and otherwise only when no search is active; after it has returned, with
\* a search forwarded before and no go* since, the host's onBestMove callback
\* has been invoked exactly once for that search, getBestMove() is its best
\* move and isSearching() is false.
C8_WaitThenHostCalledOnce ==
    /\ hpc = "wait" /\ wpc = "idle" => ENABLED waitForSearchFinished_return
    /\ hpc = "did_wait" => wpc = "idle" /\ queue = <<>>
    /\ hpc = "did_wait" /\ nGo >= 1 =>
          /\ obs.id = nGo /\ obs.best = 1
          /\ lastBestMove = cur.best /\ cur.best # ""
          /\ ~searching

\* C8, amended: the same, with the host's onBestMove callback invoked
\* exactly once if the slot held a receiver and not at all if it was empty.
C8_WaitThenTerminalDone ==
    /\ hpc = "wait" /\ wpc = "idle" => ENABLED waitForSearchFinished_return
    /\ hpc = "did_wait" => wpc = "idle" /\ queue = <<>>
    /\ hpc = "did_wait" /\ nGo >= 1 =>
          /\ obs.id = nGo /\ cur.id = nGo /\ HostCallsMatchSlot
          /\ lastBestMove = cur.best /\ cur.best # ""
          /\ ~searching

C8_Witness ==
    /\ hpc = "did_wait" /\ nGo = 1 /\ obs.best = 1 /\ obs.upd = 1
    /\ lastBestMove = cur.best /\ ~searching

\* C9 as stated: getBestMove() and getPonderMove() are the pair of the most
\* recently completed search (both empty before the first), whether a search
\* counts as completed when its result is delivered or when its trampoline
\* has cleared the flag.
C9_CachedPairOfCompletedSearch ==
    hpc # "dead" =>
        \/ lastBestMove = cur.best /\ lastPonder = cur.ponder
        \/ /\ wpc \in {"bm43", "bm44", "bm45"}
           /\ lastBestMove = cur.prevBest /\ lastPonder = cur.prevPonder

\* C9, amended: both are empty until the first terminal result is delivered
\* and afterwards equal the pair delivered last, also while a later search
\* runs, except inside the terminal trampoline: before its first write they
\* still show the previous pair, and between its two writes getBestMove() is
\* the new best move while getPonderMove() is still the previous ponder move.
C9_CachedPairOutsideWrites ==
    hpc # "dead" =>
        /\ lastBestMove = IF wpc = "bm43" THEN cur.prevBest ELSE cur.best
        /\ lastPonder = IF wpc \in {"bm43", "bm44"} THEN cur.prevPonder ELSE cur.ponder

C9_Witness ==
    /\ wpc = "search" /\ cur.id = 2 /\ searching
    /\ lastBestMove = cur.best /\ lastPonder = cur.ponder /\ cur.best # ""

\* C10: no step adds an entry to the option store, and a setOption step
\* either names an option of the store and assigns it that one value, or
\* names none, leaves the store as it is and returns.
C10_SetOptionOnlyKnown ==
    [][/\ DOMAIN options' = DOMAIN options
       /\ setOption =>
            \/ hpc' = "did_set_skip" /\ options' = options
            \/ /\ hpc' = "idle"
               /\ \E name \in KnownOptions, value \in OptionValues :
                     options' = [options EXCEPT ![name] = value]]_vars

C10_Witness ==
    /\ hpc = "did_set_skip" /\ DOMAIN options = KnownOptions
    /\ options["Hash"] = "x" /\ options["Threads"] = DefaultOptions["Threads"]

\* C11 as stated: no exception leaves an adapter entry point, the constructor
\* included; init() returns normally whether load_networks fails,
\* verify_networks fails or both succeed, and its steps leave searching, the
\* cached moves and the callback slots as they are.
C11_NoExceptionEscapes ==
    [][/\ hpc' # "ctor_threw"
       /\ hpc \in {"init79", "init80"} /\ hpc' # hpc =>
             /\ hpc' \in {"init80", "did_init"}
             /\ UNCHANGED adapter]_vars

\* every accepted search has had its terminal trampoline return and no go*
\* call has been accepted since
Quiescent == wpc = "idle" /\ queue = <<>>

\* C12: in the quiescent interval, from the return of a search's terminal
\* trampoline until the engine accepts the next go*, no step makes a host
\* call; and once the terminal call of a search has been made, no further
\* update or terminal call is made for that search.
C12_NoEventWhileQuiescent ==
    [][/\ Quiescent => obs' = obs /\ lateCall' = lateCall
       /\ obs.best = 1 /\ obs'.id = obs.id => obs' = obs]_vars

C12_Witness ==
    /\ Quiescent /\ cur.id = 1 /\ nGo = 1 /\ hpc = "go"
    /\ obs.id = 1 /\ obs.upd = 1 /\ obs.best = 1

\* C13 as stated: no step replaces a callback slot while the worker is
\* between the emptiness test of that slot and the end of the call it makes
\* through it.
C13_SlotStableDuringDispatch ==
    [][/\ wpc = "upd64" => onUpdateCallback' = onUpdateCallback
       /\ wpc = "bm48" => onBestMoveCallback' = onBestMoveCallback]_vars

\* the update events of the running search that the trampoline has finished
\* with
UpdatesDispatched == cur.nupd - (IF wpc \in {"upd53", "upd64"} THEN 1 ELSE 0)

\* the host calls made for the updates of the running search
UpdatesOfRunning == IF obs.id = cur.id THEN obs ELSE FreshObs

\* C14: with the onUpdate receiver replaced only between searches, the
\* updates of the running search have gone to the receiver installed for the
\* length of that search and to no other, one call for each update the
\* trampoline has finished with (none if the slot is empty); a receiver that
\* was swapped out has none of them.
C14_UpdatesToInstalledReceiver ==
    Undelivered =>
        /\ UpdatesOfRunning.to \subseteq ({onUpdateCallback} \ {Null})
        /\ UpdatesOfRunning.upd =
              IF onUpdateCallback = Null THEN 0 ELSE UpdatesDispatched
        /\ UpdatesOfRunning.to \cap (obs.before \ {onUpdateCallback}) = {}

C14_Witness ==
    /\ wpc = "search" /\ cur.id = 2 /\ obs.id = 2
    /\ obs.before = {"A"} /\ onUpdateCallback = "B"
    /\ obs.to = {"B"} /\ obs.upd = 1

\* the worker leaves the position at, on a live adapter
WorkerLeaves(at) == wpc = at /\ wpc' # at /\ hpc # "dead"

\* C15: both slots are empty after construction.  An update that finds
\* onUpdate empty is dropped: the worker returns to the search and nothing
\* else changes, no host call is made.  An update that finds onUpdate set, at
\* the test and at the call, makes exactly one host call, to that receiver,
\* with the eight fields of the engine's record, and changes no adapter
\* field.  The terminal trampoline clears searching whatever the slot holds,
\* and when it finds onBestMove empty the cached moves are the delivered
\* ones and it returns without a host call.
C15_EmptySlotOnlySilences ==
    /\ onUpdateCallback = Null /\ onBestMoveCallback = Null
    /\ [][/\ WorkerLeaves("upd53") /\ onUpdateCallback = Null =>
                /\ wpc' = "search"
                /\ UNCHANGED <<adapter, host, cur, queue, options, pool, ghost>>
          /\ WorkerLeaves("upd53") /\ onUpdateCallback # Null =>
                /\ wpc' = "upd64"
                /\ UNCHANGED <<adapter, host, cur, queue, options, pool, ghost>>
          /\ WorkerLeaves("upd64") /\ onUpdateCallback # Null =>
                /\ wpc' = "search"
                /\ obs'.upd = obs.upd + 1
                /\ obs'.to = obs.to \cup {onUpdateCallback}
                /\ obs'.best = obs.best
                /\ LET i == InfoFull(cur.id, cur.nupd)
                   IN  obs'.rec =
                         [depth |-> i.depth, seldepth |-> i.selDepth,
                          time |-> i.timeMs, nodes |-> i.nodes, score |-> i.score,
                          hashfull |-> i.hashfull, nps |-> i.nps, tbhits |-> i.tbHits]
                /\ UNCHANGED <<adapter, host, cur, queue, options, pool>>
          /\ WorkerLeaves("bm45") => wpc' = "bm47" /\ searching' = FALSE
          /\ WorkerLeaves("bm47") /\ onBestMoveCallback = Null =>
                /\ lastBestMove = cur.best /\ lastPonder = cur.ponder
                /\ wpc' \in {"idle", "search"}
                /\ obs'.best = obs.best /\ obs'.upd = obs.upd
                /\ UNCHANGED <<adapter, lateCall>>]_vars

C15_Witness ==
    /\ wpc = "idle" /\ hpc # "dead" /\ obs.id = 1
    /\ obs.upd = 1 /\ obs.rec.nodes = 1001 /\ obs.rec.nps = 100000
    /\ obs.s47 = Null /\ obs.best = 0
    /\ lastBestMove = cur.best /\ cur.best # "" /\ ~searching

\* the limits of the searches the engine has accepted and not ended
EngineLimits ==
    (IF Undelivered THEN {cur.lim} ELSE {}) \cup {queue[i].lim : i \in DOMAIN queue}

\* the limits of the search the engine accepted last
NewestLimits == IF queue = <<>> THEN cur.lim ELSE queue[Len(queue)].lim

\* the descriptors in which one entry point's field is set and every other
\* field has its default
DepthOnly == {[DefaultLimits EXCEPT !.depth = d] : d \in Depths}
TimeOnly == {[DefaultLimits EXCEPT !.timeW = t, !.timeB = t] : t \in TimesMs}
NodesOnly == {[DefaultLimits EXCEPT !.nodes = n] : n \in NodeBudgets}
InfiniteOnly == {[DefaultLimits EXCEPT !.infinite = TRUE]}

\* C16: the descriptor a go* call builds has that entry point's field set
\* and every other field at its default, whatever earlier calls built; the
\* engine is handed exactly that descriptor, so every search it holds runs
\* under a descriptor with one entry point's field set.
C16_FreshLimitsPerCall ==
    /\ [](/\ EngineLimits \subseteq DepthOnly \cup TimeOnly \cup NodesOnly \cup InfiniteOnly
          /\ hpc # "go" => limits = DefaultLimits)
    /\ [][/\ goDepth => limits' \in DepthOnly
          /\ goTime => limits' \in TimeOnly
          /\ goNodes => limits' \in NodesOnly
          /\ goInfinite => limits' \in InfiniteOnly
          /\ hpc = "go" /\ hpc' # "go" =>
                /\ nGo' = nGo + 1
                /\ NewestLimits' = limits]_vars

C16_Witness ==
    /\ wpc = "search" /\ cur.lim \in DepthOnly
    /\ Len(queue) = 1 /\ queue[1].lim \in TimeOnly
    /\ hpc = "idle"

\* the engine holds a search that has not delivered its terminal result
SearchInProgress == Undelivered \/ queue # <<>>

\* C17 as stated: setThreads(n) assigns the decimal string of n to "Threads"
\* and leaves the pool alone, then has the pool rebuilt from that option and
\* leaves the option alone; the pool changes in no other step; and no search
\* is in progress during either step or between them.
C17_SetThreadsOrderedAndAtomic ==
    /\ [](hpc = "resize" => ~SearchInProgress)
    /\ [][/\ hpc # "resize" /\ hpc' = "resize" =>
                /\ options' \in {[options EXCEPT !["Threads"] = v] : v \in {"2", "12"}}
                /\ pool' = pool
                /\ ~SearchInProgress
          /\ hpc = "resize" /\ hpc' # "resize" =>
                /\ pool' = options["Threads"]
                /\ options' = options
                /\ ~SearchInProgress
          /\ pool' # pool => hpc = "resize"]_vars

\* the searches the engine holds without terminal result
EngineSearches == (IF Undelivered THEN 1 ELSE 0) + Len(queue)

\* C18: a go* call made while searching is true is taken like any other:
\* each entry point can be entered, it sets searching and goes on to
\* engine->go, and that call hands the engine one more go request.
C18_ReentrantGoForwarded ==
    /\ [](/\ ready /\ searching /\ nGo < MaxSearches =>
                /\ ENABLED goDepth /\ ENABLED goTime
                /\ ENABLED goNodes /\ ENABLED goInfinite
          /\ hpc = "go" => ENABLED go_engine)
    /\ [][/\ ready /\ searching /\ hpc' # hpc /\ limits' # limits =>
                searching' /\ hpc' = "go"
          /\ hpc = "go" /\ hpc' # "go" =>
                /\ hpc' = "idle"
                /\ nGo' = nGo + 1
                /\ EngineSearches' = EngineSearches + 1]_vars

C18_Witness ==
    /\ searching /\ nGo = 2 /\ hpc = "idle"
    /\ wpc = "upd64" /\ cur.id = 1 /\ Len(queue) = 1 /\ queue[1].id = 2

\* every search forwarded to the engine has delivered its terminal result:
\* the trampoline of the last one has run its three assignments
AllDelivered ==
    /\ cur.id = nGo /\ queue = <<>>
    /\ wpc \in {"bm47", "bm48", "idle"}

\* C19: whenever no go* call is in progress and every search forwarded to
\* the engine has delivered its terminal result, isSearching() is false.
C19_FlagNotStuck == hpc # "go" /\ AllDelivered => ~searching

C19_Witness ==
    /\ hpc = "did_stop" /\ AllDelivered /\ nGo = 2 /\ wpc = "idle"
    /\ cur.prevBest # "" /\ ~searching

\* C20: searching becomes true only in the step that enters a go*, and
\* false only in the third statement of the terminal trampoline;
\* lastBestMove changes only in its first statement and lastPonder only in
\* its second.  Every other step (stop, waitForSearchFinished, init, the
\* position, option, hash, thread and callback setters, perft, the getters,
\* the update trampoline) leaves the three as they are, so after stop()
\* searching stays true until the terminal trampoline clears it.
C20_FrameOfFlagAndCache ==
    [][/\ searching' # searching =>
             \/ searching' /\ hpc # "go" /\ hpc' = "go"
             \/ ~searching' /\ wpc = "bm45" /\ wpc' = "bm47"
       /\ lastBestMove' # lastBestMove => wpc = "bm43" /\ wpc' = "bm44"
       /\ lastPonder' # lastPonder => wpc = "bm44" /\ wpc' = "bm45"
       /\ hpc' # hpc /\ hpc' # "go" =>
             UNCHANGED <<searching, lastBestMove, lastPonder>>
       /\ wpc \in {"search", "upd53", "upd64"} /\ wpc' \in {"search", "upd53", "upd64"} =>
             UNCHANGED <<searching, lastBestMove, lastPonder>>]_vars

C20_Witness ==
    /\ hpc = "did_stop" /\ searching /\ wpc = "upd53" /\ cur.stop /\ cur.id = 2
    /\ lastBestMove = cur.best /\ lastPonder = cur.ponder /\ cur.best # ""
====
